---- MODULE Spec2Model ----
\* Traffic-control layer of "Semana III/ACT5 AI/throttle.py":
\* TokenBucket, RateLimiter, ConcurrencyLimiter, ThrottledClient._request and
\* the fan-out of crear_multiples_productos, under asyncio's single-threaded
\* cooperative scheduling.  One action is one run of a task between two
\* suspension points (await asyncio.sleep, await semaphore.acquire, the
\* network exchange).
\*
\* Time is discrete: TicksPerSecond ticks per second.  max_per_second is the
\* rational rateNum / RateDen.  Token amounts are integers counted in units of
\* 1 / TokenUnit of a token, so that `elapsed * tokens_per_second` is exactly
\* (elapsed ticks) * rateNum units.
EXTENDS Integers, Sequences, FiniteSets, TLC

NOps == 3
MaxConcurrentChoice == 2
MaxRateNum == 4
TicksPerSecond == 2
RateDen == 2

Ops == 1..NOps
TokenUnit == TicksPerSecond * RateDen

Min(a, b) == IF a <= b THEN a ELSE b
Max(a, b) == IF a >= b THEN a ELSE b
CeilDiv(a, b) == (a + b - 1) \div b

VARIABLES
    max_concurrent,   \* ConcurrencyLimiter.max_concurrent
    rateNum,          \* RateLimiter.max_per_second = rateNum / RateDen
    max_tokens,       \* TokenBucket.max_tokens (whole tokens)
    tokens,           \* TokenBucket.tokens, in units of 1/TokenUnit token
    sinceRefill,      \* time.time() - TokenBucket.last_refill, in ticks
    sleepLeft,        \* remaining ticks of each caller's asyncio.sleep
    semValue,         \* free permits of ConcurrencyLimiter.semaphore
    waiters,          \* FIFO queue of callers suspended in semaphore.acquire
    in_flight,        \* ConcurrencyLimiter._in_flight
    holders,          \* callers inside `async with concurrency_limiter.acquire()`
    requests_made,    \* RateLimiter._requests_made
    metrics,          \* ThrottledClient.metrics
    pc,               \* where each call of _request stands
    response,         \* what the exchange of each call produced
    result,           \* what each call returned or raised to its caller
    cancelled,        \* calls whose task was cancelled by its owner
    trace,            \* stages each call went through, in order
    recentGrants,     \* tokens granted in each of the last TicksPerSecond ticks
    everWaited,       \* calls that were suspended in semaphore.acquire
    report            \* result of crear_multiples_productos

vars == <<max_concurrent, rateNum, max_tokens, tokens, sinceRefill, sleepLeft,
          semValue, waiters, in_flight, holders, requests_made, metrics, pc,
          response, result, cancelled, trace, recentGrants, everWaited, report>>

\* State of coordinador_async.py: one group of tasks and its coordinator.
VARIABLES
    body,             \* what the tasks of the group run: "request" | "coroutine"
    clock,            \* time.time() - inicio, in seconds
    group,            \* names of the tasks created by the coordinator
    answer,           \* what the work of each task produced
    tstate,           \* each task: "none", "running", "ok" or the exception it ended with
    settledAt,        \* clock at which the work of each task ended by itself
    settleOrder,      \* tasks done that asyncio.wait has yet to return, in the order they ended
    cancelReq,        \* tasks on which Task.cancel() was called
    cpc,              \* coordinator: "idle", "waiting", "visiting", "returned", "raised"
    pendientes,       \* the set `pendientes` of the coordinator's loop
    doneQueue,        \* tasks of `done` that `for tarea in done` has yet to visit
    datos,            \* keys of the dict `datos`
    errores,          \* entries of the list `errores`
    canceladas_por_auth,
    canceladas,       \* return value of cancel_remaining, -1 before any call
    returnedAt,       \* clock at which the coordinator returned
    criticas_completadas,
    tiempo_dashboard_parcial,
    orden_llegada,
    deadline,         \* timeout_segundos of each ejecutar_con_timeout call
    wres              \* how each ejecutar_con_timeout call ended

coordVars == <<body, clock, group, answer, tstate, settledAt, settleOrder,
               cancelReq, cpc,
               pendientes, doneQueue, datos, errores, canceladas_por_auth, canceladas,
               returnedAt, criticas_completadas, tiempo_dashboard_parcial,
               orden_llegada, deadline, wres>>

\* State of smart_session.py: one SmartSession, its pool and its monitor.
VARIABLES
    max_connections,  \* SmartSession._max_connections
    monitoring,       \* SmartSession._enable_monitoring
    sess,             \* the session: "none", "open", "exiting" or "closed"
    closedFlag,       \* SmartSession._closed
    mon,              \* _health_check_task: "none", "sleeping" or "ended"
    monEnd,           \* how the task ended: "none", "returned" or the exception that left it
    active,           \* len(connector._acquired)
    idle,             \* connections kept in connector._conns
    acquisition_times, \* ConnectionPoolStats.acquisition_times, in microseconds
    counters,         \* connections_created, connections_reused, connections_closed
    ticked,           \* the monitor has run a check
    seen,             \* the snapshot of the last check
    advice,           \* the advisories the last check printed
    userSnap,         \* what get_pool_stats last returned to a caller
    exitResult        \* how __aexit__ ended: "none", "ok" or "raised"

monVars == <<max_connections, monitoring, sess, closedFlag, mon, monEnd, active,
             idle, acquisition_times, counters, ticked, seen, advice, userSnap,
             exitResult>>

\* ThrottledClient.get_metrics as seen by a caller that reads the metrics
\* twice in a row and keeps the first dict.
VARIABLES
    held,             \* the first dict: whether it is self.metrics itself, and its content when returned
    again             \* the dict returned by the call that follows at once

metVars == <<held, again>>

\* retry.py: one call of a function wrapped by with_retry.
VARIABLES
    max_retries,      \* RetryConfig.max_retries
    retry_on,         \* RetryConfig.retry_on, as the kinds of exception it matches
    has_callback,     \* on_retry is not None
    attempt,          \* the loop variable of wrapper
    rpc,              \* wrapper: "idle", "calling", "sleeping", "returned" or "raised"
    events,           \* "call", "on_retry" and "sleep", in the order they happened
    results,          \* what each invocation of func did
    delays,           \* the arguments of time.sleep, in quarters of a second
    last_exception,   \* the local last_exception of wrapper
    outcome           \* what wrapper returned or raised

retVars == <<max_retries, retry_on, has_callback, attempt, rpc, events, results,
             delays, last_exception, outcome>>

\* TokenBucket.acquire watched over time.
VARIABLES
    now,              \* time.time() since the bucket was built, in ticks
    slept,            \* callers that have slept inside acquire
    rewaited          \* callers that woke from a sleep, found no token and slept again

bktVars == <<now, slept, rewaited>>

sideVars == <<monVars, metVars, retVars, bktVars>>

\* The side variables that the SmartSession, get_metrics and with_retry leave alone.
notMon == <<metVars, retVars, bktVars>>
notMet == <<monVars, retVars, bktVars>>
notRet == <<monVars, metVars, bktVars>>

allVars == <<vars, coordVars, sideVars>>

NoSnapshot == [active |-> -1, idle |-> -1, times |-> <<>>]

\* No SmartSession has been created.
MonitorIdle ==
    /\ max_connections = 1
    /\ monitoring = FALSE
    /\ sess = "none"
    /\ closedFlag = FALSE
    /\ mon = "none"
    /\ monEnd = "none"
    /\ active = 0
    /\ idle = 0
    /\ acquisition_times = <<>>
    /\ counters = [created |-> 0, reused |-> 0, closed |-> 0]
    /\ ticked = FALSE
    /\ seen = NoSnapshot
    /\ advice = {}
    /\ userSnap = NoSnapshot
    /\ exitResult = "none"

NoMetrics == [total_requests |-> -1]

MetricsIdle ==
    /\ held = [alias |-> FALSE, at |-> NoMetrics]
    /\ again = NoMetrics

\* An exception object: its class and the invocation that raised it.
NoException == [kind |-> "none", call |-> 0]

NoOutcome == [kind |-> "none", call |-> 0, attempts |-> 0, last |-> NoException]

RetryIdle ==
    /\ max_retries = 0
    /\ retry_on = {}
    /\ has_callback = FALSE
    /\ attempt = 0
    /\ rpc = "idle"
    /\ events = <<>>
    /\ results = <<>>
    /\ delays = <<>>
    /\ last_exception = NoException
    /\ outcome = NoOutcome

BucketIdle ==
    /\ now = 0
    /\ slept = {}
    /\ rewaited = {}

SideIdle == MonitorIdle /\ MetricsIdle /\ RetryIdle /\ BucketIdle

Tasks == {"productos", "categorias", "perfil", "notificaciones"}

\* No coordinator has been started.
CoordIdle ==
    /\ body = "none"
    /\ clock = 0
    /\ group = {}
    /\ answer = [t \in Tasks |-> "none"]
    /\ tstate = [t \in Tasks |-> "none"]
    /\ settledAt = [t \in Tasks |-> -1]
    /\ settleOrder = <<>>
    /\ cancelReq = {}
    /\ cpc = "idle"
    /\ pendientes = {}
    /\ doneQueue = <<>>
    /\ datos = {}
    /\ errores = {}
    /\ canceladas_por_auth = FALSE
    /\ canceladas = -1
    /\ returnedAt = -1
    /\ criticas_completadas = {}
    /\ tiempo_dashboard_parcial = -1
    /\ orden_llegada = <<>>
    /\ deadline = [t \in Tasks |-> 0]
    /\ wres = [t \in Tasks |-> "none"]

\* ---------------------------------------------------------------- values

Stages == <<"token", "slot", "work", "release">>

\* Outcomes of the exchange inside `async with self.session.request(...)`.
Responses == {"ok", "bad_schema", "status5xx", "status4xx", "timeout", "connect_error"}

NoReport == [exitosos |-> -1, errores |-> -1]

\* int(max_per_second)
IntOf(num) == num \div RateDen

\* The time after which a refill saturates whatever the token count was.
SinceCap == CeilDiv(max_tokens * TokenUnit, rateNum)

\* ---------------------------------------------------------------- TokenBucket

\* Mutant of Refill: the refill forgets the cap.
RefillUncapped(t, elapsed) == t + elapsed * rateNum

\* self.tokens = min(self.max_tokens, self.tokens + elapsed * self.tokens_per_second)
Refill(t, elapsed) == Min(max_tokens * TokenUnit, t + elapsed * rateNum)

\* Mutant of HasToken: a fraction of a token is enough.
HasTokenPartial(t) == t > 0

\* if self.tokens >= 1.0
HasToken(t) == t >= TokenUnit

\* deficit = 1.0 - self.tokens; sleep_time = deficit / self.tokens_per_second
\* asyncio.sleep resumes the caller no earlier than sleep_time later.
SleepTicks(t) == CeilDiv(TokenUnit - t, rateNum)

\* Mutant of RateExitTokens: the token is handed back when the body failed.
RateExitRefund(t, failed) == IF failed THEN t + TokenUnit ELSE t

\* RateLimiter.AcquireContext.__aexit__ does nothing: the token count after
\* leaving the rate-limited body is the one before, whatever happened inside.
RateExitTokens(t, failed) == t

\* ---------------------------------------------------------------- Semaphore

\* Mutant of Locked: the semaphore admits everybody.
LockedNever == FALSE

\* asyncio.Semaphore.locked(): no free permit, or somebody queued before us.
Locked == semValue = 0 \/ waiters /= <<>>

Remove(seq, x) == SelectSeq(seq, LAMBDA y: y /= x)

\* ---------------------------------------------------------------- _request

\* What is raised inside the try block for each outcome of the exchange.
Raised(r) ==
    CASE r = "status5xx"     -> "ServerError"
      [] r = "status4xx"     -> "HTTPValidationError"
      [] r = "timeout"       -> "asyncio.TimeoutError"
      [] r = "connect_error" -> "ClientConnectorError"
      [] OTHER               -> "none"

\* `except aiohttp.ClientTimeout:` names a class that does not inherit from
\* BaseException.  Python raises TypeError when it matches an exception in
\* flight against such a class, so no handler body is ever entered and every
\* exception raised inside the try block leaves _request as a TypeError.
HandlerEntered(exc) == FALSE
Propagated(exc) == "TypeError"

\* crear_producto: validar_producto(result) after _request returned.
CallResult(r) ==
    CASE r = "ok"         -> "ok"
      [] r = "bad_schema" -> "SchemaValidationError"
      [] OTHER            -> Propagated(Raised(r))

\* Mutant of IsException: only the module's own error family is counted.
IsEcoMarketError(r) == r \in {"ServerError", "HTTPValidationError", "TimeoutError", "ConexionError"}

\* isinstance(r, Exception); asyncio.CancelledError derives from BaseException.
IsException(r) == r \notin {"ok", "CancelledError"}

\* ---------------------------------------------------------------- initial state

Init ==
    /\ max_concurrent \in 1..MaxConcurrentChoice
    /\ rateNum \in 1..MaxRateNum
    /\ max_tokens = IntOf(rateNum)
    /\ tokens = max_tokens * TokenUnit
    /\ sinceRefill = 0
    /\ sleepLeft = [i \in Ops |-> 0]
    /\ semValue = max_concurrent
    /\ waiters = <<>>
    /\ in_flight = 0
    /\ holders = {}
    /\ requests_made = 0
    /\ metrics = [total_requests |-> 0, successful_requests |-> 0, failed_requests |-> 0]
    /\ pc = [i \in Ops |-> "idle"]
    /\ response = [i \in Ops |-> "none"]
    /\ result = [i \in Ops |-> "none"]
    /\ cancelled = {}
    /\ trace = [i \in Ops |-> <<>>]
    /\ recentGrants = [k \in 1..TicksPerSecond |-> 0]
    /\ everWaited = {}
    /\ report = NoReport
    /\ CoordIdle
    /\ SideIdle

\* ---------------------------------------------------------------- helpers of the actions

\* ConcurrencyLimiter.AcquireContext.__aenter__ once semaphore.acquire() has
\* returned, followed by the first statement of the try block; `tr` is the
\* caller's trace so far.
Admit(i, tr) ==
    /\ semValue' = semValue - 1
    /\ in_flight' = in_flight + 1
    /\ holders' = holders \cup {i}
    /\ metrics' = [metrics EXCEPT !.total_requests = @ + 1]
    /\ pc' = [pc EXCEPT ![i] = "exec"]
    /\ trace' = [trace EXCEPT ![i] = tr \o <<"slot", "work">>]

\* Mutant of ReleaseSlot: the counter is decremented, the permit is kept.
ReleaseSlotCounterOnly(i) ==
    /\ in_flight' = in_flight - 1
    /\ holders' = holders \ {i}
    /\ UNCHANGED semValue

\* ConcurrencyLimiter.AcquireContext.__aexit__
ReleaseSlot(i) ==
    /\ in_flight' = in_flight - 1
    /\ semValue' = semValue + 1
    /\ holders' = holders \ {i}

\* Mutant of FinishRelease: the slot is released on the success path only.
FinishReleaseOnSuccess(i, r) ==
    IF r \in {"ok", "bad_schema"}
    THEN ReleaseSlot(i)
    ELSE UNCHANGED <<in_flight, semValue, holders>>

\* Leaving `async with self.concurrency_limiter.acquire()` by return or by an
\* exception: __aexit__ runs on every exit path.
FinishRelease(i, r) == ReleaseSlot(i)

\* Mutant of CancelWaiting: a cancelled waiter releases a permit it never got.
CancelWaitingReleases(i) ==
    /\ waiters' = Remove(waiters, i)
    /\ semValue' = semValue + 1
    /\ UNCHANGED <<in_flight, holders>>

\* Cancellation inside `await self.limiter.semaphore.acquire()`: the waiter
\* leaves the queue, __aenter__ never completes and __aexit__ never runs.
CancelWaiting(i) ==
    /\ waiters' = Remove(waiters, i)
    /\ UNCHANGED <<semValue, in_flight, holders>>

\* ---------------------------------------------------------------- actions

\* Mutant of Submit: the concurrency slot is taken before the rate token.
SubmitSlotFirst(i) ==
    /\ pc[i] = "idle"
    /\ ~Locked
    /\ pc' = [pc EXCEPT ![i] = "rate"]
    /\ semValue' = semValue - 1
    /\ in_flight' = in_flight + 1
    /\ holders' = holders \cup {i}
    /\ UNCHANGED <<coordVars, sideVars>>
    /\ UNCHANGED <<max_concurrent, rateNum, max_tokens, tokens, sinceRefill,
                   sleepLeft, waiters, requests_made, metrics, response,
                   result, cancelled, trace, recentGrants, everWaited, report>>

\* A caller invokes _request: the task exists and will first run
\* `async with self.rate_limiter.acquire()`.
Submit(i) ==
    /\ pc[i] = "idle"
    /\ pc' = [pc EXCEPT ![i] = "rate"]
    /\ UNCHANGED <<coordVars, sideVars>>
    /\ UNCHANGED <<max_concurrent, rateNum, max_tokens, tokens, sinceRefill,
                   sleepLeft, semValue, waiters, in_flight, holders,
                   requests_made, metrics, response, result, cancelled, trace,
                   recentGrants, everWaited, report>>

\* One iteration of the loop of TokenBucket.acquire, run when the caller is
\* first scheduled or when its sleep is over.  A granted caller goes on, in
\* the same run, through RateLimiter.__aenter__ and into
\* ConcurrencyLimiter.__aenter__, up to its next suspension point.
RateAcquireStep(i) ==
    /\ pc[i] = "rate"
    /\ sleepLeft[i] = 0
    /\ LET t == Refill(tokens, sinceRefill) IN
       /\ sinceRefill' = 0
       /\ IF HasToken(t)
          THEN /\ tokens' = t - TokenUnit
               /\ requests_made' = requests_made + 1
               /\ recentGrants' = [recentGrants EXCEPT ![1] = @ + 1]
               /\ UNCHANGED sleepLeft
               /\ IF ~Locked
                  THEN /\ Admit(i, <<"token">>)
                       /\ UNCHANGED <<waiters, everWaited>>
                  ELSE /\ waiters' = Append(waiters, i)
                       /\ everWaited' = everWaited \cup {i}
                       /\ pc' = [pc EXCEPT ![i] = "slot"]
                       /\ trace' = [trace EXCEPT ![i] = <<"token">>]
                       /\ UNCHANGED <<semValue, in_flight, holders, metrics>>
          ELSE /\ tokens' = t
               /\ sleepLeft' = [sleepLeft EXCEPT ![i] = SleepTicks(t)]
               /\ UNCHANGED <<requests_made, recentGrants, semValue, waiters,
                              in_flight, holders, metrics, pc, trace, everWaited>>
    /\ UNCHANGED <<max_concurrent, rateNum, max_tokens, response, result,
                   cancelled, report>>

RateAcquire(i) ==
    /\ RateAcquireStep(i)
    /\ UNCHANGED <<coordVars, sideVars>>

\* The first queued caller is resumed once a permit is free.
SlotAdmit(i) ==
    /\ pc[i] = "slot"
    /\ waiters /= <<>>
    /\ Head(waiters) = i
    /\ semValue > 0
    /\ waiters' = Tail(waiters)
    /\ Admit(i, trace[i])
    /\ UNCHANGED <<coordVars, sideVars>>
    /\ UNCHANGED <<max_concurrent, rateNum, max_tokens, tokens, sinceRefill,
                   sleepLeft, requests_made, response, result, cancelled,
                   recentGrants, everWaited, report>>

\* The exchange of caller i ends with outcome r; the rest of _request and of
\* crear_producto runs to the end.
Finish(i, r) ==
    /\ pc[i] = "exec"
    /\ response' = [response EXCEPT ![i] = r]
    /\ result' = [result EXCEPT ![i] = CallResult(r)]
    /\ metrics' = [metrics EXCEPT
                     !.successful_requests =
                         IF r \in {"ok", "bad_schema"} THEN @ + 1 ELSE @,
                     !.failed_requests =
                         IF Raised(r) /= "none" /\ HandlerEntered(Raised(r))
                         THEN @ + 1 ELSE @]
    /\ FinishRelease(i, r)
    /\ tokens' = RateExitTokens(tokens, Raised(r) /= "none")
    /\ trace' = [trace EXCEPT ![i] = Append(@, "release")]
    /\ pc' = [pc EXCEPT ![i] = "done"]
    /\ UNCHANGED <<coordVars, sideVars>>
    /\ UNCHANGED <<max_concurrent, rateNum, max_tokens, sinceRefill, sleepLeft,
                   waiters, requests_made, cancelled, recentGrants, everWaited, report>>

Complete(i) == \E r \in Responses : Finish(i, r)

\* The owner of the task cancels it; CancelledError is thrown at the
\* suspension point the task is parked on.
Cancel(i) ==
    /\ pc[i] \in {"rate", "slot", "exec"}
    /\ cancelled' = cancelled \cup {i}
    /\ pc' = [pc EXCEPT ![i] = "done"]
    /\ sleepLeft' = [sleepLeft EXCEPT ![i] = 0]
    /\ CASE pc[i] = "rate" ->
              /\ result' = [result EXCEPT ![i] = "CancelledError"]
              /\ UNCHANGED <<tokens, semValue, waiters, in_flight, holders, trace>>
         [] pc[i] = "slot" ->
              /\ result' = [result EXCEPT ![i] = "CancelledError"]
              /\ CancelWaiting(i)
              /\ tokens' = RateExitTokens(tokens, TRUE)
              /\ UNCHANGED trace
         [] pc[i] = "exec" ->
              /\ result' = [result EXCEPT ![i] = Propagated("CancelledError")]
              /\ ReleaseSlot(i)
              /\ tokens' = RateExitTokens(tokens, TRUE)
              /\ trace' = [trace EXCEPT ![i] = Append(@, "release")]
              /\ UNCHANGED waiters
    /\ UNCHANGED <<coordVars, sideVars>>
    /\ UNCHANGED <<max_concurrent, rateNum, max_tokens, sinceRefill,
                   requests_made, metrics, response, recentGrants, everWaited, report>>

\* Time advances by one tick.
TickStep ==
    /\ sinceRefill' = Min(sinceRefill + 1, SinceCap)
    /\ sleepLeft' = [i \in Ops |-> Max(sleepLeft[i] - 1, 0)]
    /\ recentGrants' = [k \in 1..TicksPerSecond |->
                          IF k = 1 THEN 0 ELSE recentGrants[k - 1]]
    /\ UNCHANGED <<max_concurrent, rateNum, max_tokens, tokens, semValue,
                   waiters, in_flight, holders, requests_made, metrics, pc,
                   response, result, cancelled, trace, everWaited, report>>

Tick ==
    /\ TickStep
    /\ UNCHANGED <<coordVars, sideVars>>

\* crear_multiples_productos: asyncio.gather(*tareas, return_exceptions=True)
\* returns once every task has settled; the results are then partitioned.
Gather ==
    /\ report = NoReport
    /\ \A i \in Ops : pc[i] = "done"
    /\ report' = [exitosos |-> Cardinality({i \in Ops : ~IsException(result[i])}),
                  errores  |-> Cardinality({i \in Ops : IsException(result[i])})]
    /\ UNCHANGED <<coordVars, sideVars>>
    /\ UNCHANGED <<max_concurrent, rateNum, max_tokens, tokens, sinceRefill,
                   sleepLeft, semValue, waiters, in_flight, holders,
                   requests_made, metrics, pc, response, result, cancelled,
                   trace, recentGrants, everWaited>>

Next ==
    \/ \E i \in Ops : Submit(i)
    \/ \E i \in Ops : RateAcquire(i)
    \/ \E i \in Ops : SlotAdmit(i)
    \/ \E i \in Ops : Complete(i)
    \/ \E i \in Ops : Cancel(i)
    \/ Tick
    \/ Gather

Spec == Init /\ [][Next]_allVars

\* The event loop runs every ready task, and every exchange ends (each
\* request carries a total timeout), so a slot holder eventually releases.
\* Nothing obliges an owner to cancel.
LiveSpec ==
    /\ Init
    /\ [][Next]_allVars
    /\ \A i \in Ops : WF_vars(SlotAdmit(i))
    /\ \A i \in Ops : WF_vars(Complete(i))

TypeOK ==
    /\ max_concurrent \in 1..MaxConcurrentChoice
    /\ rateNum \in 1..MaxRateNum
    /\ pc \in [Ops -> {"idle", "rate", "slot", "exec", "done"}]
    /\ response \in [Ops -> Responses \cup {"none"}]
    /\ cancelled \subseteq Ops
    /\ holders \subseteq Ops
    /\ everWaited \subseteq Ops

\* ---------------------------------------------------------------- properties

IsPrefix(s, t) == Len(s) <= Len(t) /\ s = SubSeq(t, 1, Len(s))
Settled == \A i \in Ops : pc[i] \in {"idle", "done"}
Has(i, stage) == \E n \in 1..Len(trace[i]) : trace[i][n] = stage

\* Acquisitions granted in the one-second window that ends now.
RECURSIVE SumTo(_, _)
SumTo(f, n) == IF n = 0 THEN 0 ELSE f[n] + SumTo(f, n - 1)
WindowGrants == SumTo(recentGrants, TicksPerSecond)

\* C1: whatever the interleaving of acquire calls and the passage of time,
\* the bucket holds at least 0 and at most max_tokens tokens.
C1_TokensWithinCapacity ==
    /\ 0 <= tokens
    /\ tokens <= max_tokens * TokenUnit

\* Two tokens were consumed and a refill brought the bucket back to its cap
\* before the last one was taken.
C1_Witness ==
    /\ max_tokens >= 1
    /\ requests_made >= 2
    /\ tokens = (max_tokens - 1) * TokenUnit

\* C2: in_flight stays between 0 and max_concurrent, and never more than
\* max_concurrent calls are executing their exchange at the same time.
C2_InFlightBounded ==
    /\ 0 <= in_flight
    /\ in_flight <= max_concurrent
    /\ Cardinality({i \in Ops : pc[i] = "exec"}) <= max_concurrent

\* The limit is reached while another caller is queued behind it.
C2_Witness ==
    /\ in_flight = max_concurrent
    /\ waiters /= <<>>

\* C3: the acquisitions granted in any sliding window of one second number at
\* most max_per_second, with a tolerance of ten percent for scheduling jitter.
C3_SlidingWindowRate ==
    WindowGrants * RateDen * 100 <= rateNum * 110

\* C4: every call goes through token, slot, work, release in that order: a
\* call doing its work has consumed a token and holds a slot, and a call
\* waiting for its token holds no slot.
C4_StageOrder ==
    /\ \A i \in Ops :
         /\ IsPrefix(trace[i], Stages)
         /\ pc[i] = "exec" => trace[i] = SubSeq(Stages, 1, 3) /\ i \in holders
         /\ pc[i] = "slot" => trace[i] = SubSeq(Stages, 1, 1) /\ i \notin holders
         /\ pc[i] = "rate" => trace[i] = <<>> /\ i \notin holders
    /\ requests_made = Cardinality({i \in Ops : Has(i, "token")})

\* One call went through all four stages after queueing for its slot, while
\* another one is asleep waiting for a token.
C4_Witness ==
    /\ \E i \in everWaited : trace[i] = Stages
    /\ \E j \in Ops : pc[j] = "rate" /\ sleepLeft[j] > 0

\* C5: whatever the outcome of the work, the slot is released exactly once;
\* when every submitted call has settled no slot is in use and every permit
\* is free.
C5_SlotReleasedOnEveryOutcome ==
    /\ Settled => in_flight = 0 /\ semValue = max_concurrent
    /\ \A i \in Ops : response[i] /= "none" => trace[i] = Stages /\ i \notin holders

\* Everything settled after a timeout and an error status.
C5_Witness ==
    /\ \A i \in Ops : pc[i] = "done"
    /\ \E i, j \in Ops : response[i] = "timeout" /\ response[j] \in {"status5xx", "status4xx"}
    /\ in_flight = 0

\* C6: cancellation leaks no slot: the permits taken equal in_flight at all
\* times, a cancelled call released its slot iff it held one, and both
\* counts are back to 0 once everything has settled or been cancelled.
C6_NoSlotLeakOnCancel ==
    /\ max_concurrent - semValue = in_flight
    /\ in_flight = Cardinality(holders)
    /\ \A i \in cancelled : i \notin holders /\ (Has(i, "slot") <=> Has(i, "release"))
    /\ (\A i \in Ops : pc[i] = "done") => in_flight = 0 /\ semValue = max_concurrent

\* One call was cancelled while queued for a slot and another during its
\* exchange, and everything has settled.
C6_Witness ==
    /\ \A i \in Ops : pc[i] = "done"
    /\ \E i, j \in cancelled : trace[i] = SubSeq(Stages, 1, 1) /\ trace[j] = Stages
    /\ in_flight = 0

\* C7: a consumed token is never given back: the step in which a call that
\* holds a token settles leaves the token count unchanged, and the count only
\* grows in a refill that accounts for elapsed time.
C7_TokenNeverRefunded ==
    [][/\ \A i \in Ops : pc[i] \in {"slot", "exec"} /\ pc'[i] = "done" => tokens' = tokens
       /\ tokens' > tokens => sinceRefill > 0 /\ sinceRefill' = 0]_vars

\* A call consumed a token and timed out; the bucket is still one token short.
C7_Witness ==
    /\ max_tokens >= 1
    /\ requests_made = 1
    /\ \E i \in Ops : pc[i] = "done" /\ response[i] = "timeout"
    /\ tokens = (max_tokens - 1) * TokenUnit

\* C8: with no call in progress (and none cancelled), total_requests equals
\* successful_requests plus failed_requests.
C8_MetricsBalance ==
    Settled /\ cancelled = {} =>
        metrics.total_requests = metrics.successful_requests + metrics.failed_requests

\* C9: when no task is cancelled from outside, the fan-out runs every call
\* to settlement and reports k errors and N - k successes, k being the number
\* of calls whose work failed; no call ends cancelled because a sibling failed.
C9_GatherPartition ==
    /\ report /= NoReport /\ cancelled = {} =>
         LET k == Cardinality({i \in Ops : response[i] /= "ok"}) IN
         /\ \A i \in Ops : response[i] /= "none"
         /\ report.errores = k
         /\ report.exitosos = NOps - k
    /\ \A i \in Ops : result[i] = "CancelledError" => i \in cancelled

\* A report with successes and failures side by side.
C9_Witness ==
    /\ report /= NoReport
    /\ cancelled = {}
    /\ report.errores >= 1
    /\ report.exitosos >= 1

\* C10: a caller queued for a slot is eventually admitted (unless its owner
\* cancels it first); the limiter never turns it away.
C10_WaiterEventuallyAdmitted ==
    \A i \in Ops : (pc[i] = "slot") ~> (pc[i] = "exec" \/ i \in cancelled)

\* A caller that had to queue is doing or has done its work, uncancelled
\* while it waited.
C10_Witness ==
    \E i \in everWaited : Has(i, "work") /\ response[i] /= "none"

\* ================================================================ coordinador_async.py

MaxTime == 5

\* The group of cargar_dashboard_con_cancelacion and of cargar_con_prioridad.
CascadeTasks == {"productos", "categorias", "perfil"}
PriorityTasks == {"productos", "categorias", "perfil", "notificaciones"}
tareas_criticas == {"productos", "perfil"}

\* A task runs one of the module's request functions (listar_productos,
\* obtener_categorias, obtener_perfil, obtener_notificaciones) or a plain
\* coroutine that raises its error itself and lets a cancellation through, as
\* the operations the repository drives the coordinators with.
Bodies == {"request", "coroutine"}

\* What the work of a task can produce; only aiohttp times a request out.
Answers(b) ==
    IF b = "request" THEN {"ok", "status401", "status500", "timeout"}
                     ELSE {"ok", "status401", "status500"}

\* The total timeout each coordinator gives to each request.
RequestTimeout(t) ==
    CASE t = "productos"      -> 5
      [] t = "categorias"     -> 3
      [] t = "perfil"         -> 2
      [] t = "notificaciones" -> 4

\* _verificar_respuesta, and aiohttp's own timeout.
verificar_respuesta(a) ==
    CASE a = "status401" -> "NoAutorizado"
      [] a = "status500" -> "ServerError"
      [] a = "timeout"   -> "asyncio.TimeoutError"
      [] OTHER           -> "none"

\* Mutant of TaskOutcome: no answer is an error.
TaskOutcomeOk(b, a) == "ok"

\* How a task ends when its work produced answer `a`.  The request functions
\* raise inside a try block whose first handler is
\* `except aiohttp.ClientTimeout:`, as _request does.
TaskOutcome(b, a) ==
    IF a = "ok" THEN "ok"
    ELSE IF b = "request" THEN Propagated(verificar_respuesta(a))
    ELSE verificar_respuesta(a)

\* How a task ends when CancelledError is thrown into it.
CancelOutcome(b) ==
    IF b = "request" THEN Propagated("CancelledError") ELSE "CancelledError"

\* Task.done()
Done(t) == tstate[t] /= "running"

\* Mutant of WakeReady: return_when = ALL_COMPLETED.
WakeReadyAll(pend) == \A t \in pend : Done(t)

\* asyncio.wait(pend, return_when=FIRST_COMPLETED) can return.
WakeReady(pend) == \E t \in pend : Done(t)

\* All orders in which `for tarea in done` can visit the set.
Orders(S) ==
    {f \in [1..Cardinality(S) -> S] : \A i, j \in 1..Cardinality(S) : f[i] = f[j] => i = j}

\* A coordinator creates its tasks and suspends in asyncio.wait.
StartGroup(g) ==
    /\ body \in Bodies
    /\ clock = 0
    /\ group = g
    /\ answer = [t \in Tasks |-> "none"]
    /\ tstate = [t \in Tasks |-> IF t \in g THEN "running" ELSE "none"]
    /\ settledAt = [t \in Tasks |-> -1]
    /\ settleOrder = <<>>
    /\ cancelReq = {}
    /\ cpc = "waiting"
    /\ pendientes = g
    /\ doneQueue = <<>>
    /\ datos = {}
    /\ errores = {}
    /\ canceladas_por_auth = FALSE
    /\ canceladas = -1
    /\ returnedAt = -1
    /\ criticas_completadas = {}
    /\ tiempo_dashboard_parcial = -1
    /\ orden_llegada = <<>>
    /\ deadline = [t \in Tasks |-> 0]
    /\ wres = [t \in Tasks |-> "none"]

\* The throttled client is not part of a coordinator run.
ThrottleIdle ==
    /\ max_concurrent = 1
    /\ rateNum = RateDen
    /\ max_tokens = IntOf(rateNum)
    /\ tokens = max_tokens * TokenUnit
    /\ sinceRefill = 0
    /\ sleepLeft = [i \in Ops |-> 0]
    /\ semValue = max_concurrent
    /\ waiters = <<>>
    /\ in_flight = 0
    /\ holders = {}
    /\ requests_made = 0
    /\ metrics = [total_requests |-> 0, successful_requests |-> 0, failed_requests |-> 0]
    /\ pc = [i \in Ops |-> "idle"]
    /\ response = [i \in Ops |-> "none"]
    /\ result = [i \in Ops |-> "none"]
    /\ cancelled = {}
    /\ trace = [i \in Ops |-> <<>>]
    /\ recentGrants = [k \in 1..TicksPerSecond |-> 0]
    /\ everWaited = {}
    /\ report = NoReport

\* The work of task t ends by itself with answer a.
Settle(t, a) ==
    /\ cpc = "waiting"
    /\ t \in group
    /\ tstate[t] = "running"
    /\ t \notin cancelReq
    /\ clock >= 1
    /\ a \in Answers(body)
    /\ body = "request" =>
          /\ clock <= RequestTimeout(t)
          /\ a = "timeout" => clock = RequestTimeout(t)
    /\ answer' = [answer EXCEPT ![t] = a]
    /\ tstate' = [tstate EXCEPT ![t] = TaskOutcome(body, a)]
    /\ settledAt' = [settledAt EXCEPT ![t] = clock]
    /\ settleOrder' = Append(settleOrder, t)
    /\ UNCHANGED <<body, clock, group, cancelReq, cpc, pendientes, doneQueue, datos,
                   errores,
                   canceladas_por_auth, canceladas, returnedAt,
                   criticas_completadas, tiempo_dashboard_parcial, orden_llegada,
                   deadline, wres>>
    /\ UNCHANGED <<vars, sideVars>>

SettleSome(t) == \E a \in {"ok", "status401", "status500", "timeout"} : Settle(t, a)

\* The event loop throws CancelledError into a task that was cancelled.
CancelDeliver(t) ==
    /\ cpc /= "visiting"
    /\ t \in cancelReq
    /\ tstate[t] = "running"
    /\ tstate' = [tstate EXCEPT ![t] = CancelOutcome(body)]
    /\ UNCHANGED <<body, clock, group, answer, settledAt, settleOrder, cancelReq, cpc,
                   pendientes, doneQueue, datos, errores, canceladas_por_auth, canceladas,
                   returnedAt, criticas_completadas, tiempo_dashboard_parcial,
                   orden_llegada, deadline, wres>>
    /\ UNCHANGED <<vars, sideVars>>

\* One second passes while the coordinator is suspended in asyncio.wait: no
\* task it waits for is done, and no request has reached its timeout.
CoordTick ==
    /\ cpc = "waiting"
    /\ clock < MaxTime
    /\ ~WakeReady(pendientes)
    /\ body = "request" => \A t \in pendientes : clock < RequestTimeout(t)
    /\ clock' = clock + 1
    /\ UNCHANGED <<body, group, answer, tstate, settledAt, settleOrder, cancelReq, cpc,
                   pendientes, doneQueue, datos, errores, canceladas_por_auth, canceladas,
                   returnedAt, criticas_completadas, tiempo_dashboard_parcial,
                   orden_llegada, deadline, wres>>
    /\ UNCHANGED <<vars, sideVars>>

\* ---------------------------------------------------------------- cargar_dashboard_con_cancelacion

\* Mutant of CascadeHandler: every failure is taken for the fatal one.
CascadeHandlerAnyFatal(exc) ==
    CASE exc = "ok"             -> "value"
      [] exc = "CancelledError" -> "CancelledError"
      [] OTHER                  -> "NoAutorizado"

\* The except clause of the loop that matches what `await tarea` raises.
CascadeHandler(exc) ==
    CASE exc = "ok"             -> "value"
      [] exc = "NoAutorizado"   -> "NoAutorizado"
      [] exc = "CancelledError" -> "CancelledError"
      [] OTHER                  -> "Exception"

\* cancel_remaining: the tasks it cancels; it returns how many they are.
cancel_remaining(tasks) == {t \in tasks : ~Done(t)}

\* Mutant of CancelledEntries: the cancelled tasks are not reported.
CancelledEntriesDropped(tasks) == {}

\* The entries appended for the tasks still pending after cancel_remaining.
CancelledEntries(tasks) ==
    {[endpoint |-> t, error |-> "Cancelada", cancelada |-> TRUE] : t \in tasks}

\* Mutant of AfterCancel: the loop goes on to the next task of `done`.
AfterCancelContinue(r) == r

\* `break` after the cancellation: the rest of `done` is not visited.
AfterCancel(r) == [r EXCEPT !.stop = TRUE]

\* The body of `for tarea in done` for task t; r carries the coordinator's
\* locals, pend is the set `pendientes` returned by asyncio.wait.
CascadeOne(r, t, pend) ==
    LET h == CascadeHandler(tstate[t]) IN
    CASE h = "value" -> [r EXCEPT !.datos = @ \cup {t}]
      [] h = "NoAutorizado" ->
           LET r1 == [r EXCEPT !.errores = @ \cup
                         {[endpoint |-> t, error |-> tstate[t], cancelada |-> FALSE]}]
           IN IF pend /= {}
              THEN AfterCancel([r1 EXCEPT
                       !.cancelReq = cancel_remaining(pend),
                       !.canceladas = Cardinality(cancel_remaining(pend)),
                       !.canceladas_por_auth = TRUE,
                       !.errores = @ \cup CancelledEntries(pend)])
              ELSE r1
      [] h = "CancelledError" ->
           [r EXCEPT !.errores = @ \cup
               {[endpoint |-> t, error |-> "CancelledError", cancelada |-> TRUE]}]
      [] h = "Exception" ->
           [r EXCEPT !.errores = @ \cup
               {[endpoint |-> t, error |-> tstate[t], cancelada |-> FALSE]}]
      [] OTHER -> [r EXCEPT !.raised = TRUE]

\* asyncio.wait returns: `done` holds every task that is done now, and the
\* for loop will visit it in some order.
CascadeWake ==
    /\ cpc = "waiting"
    /\ WakeReady(pendientes)
    /\ LET done == {t \in pendientes : Done(t)}
       IN /\ pendientes' = pendientes \ done
          /\ \E order \in Orders(done) : doneQueue' = order
    /\ cpc' = "visiting"
    /\ settleOrder' = <<>>
    /\ UNCHANGED <<body, clock, group, answer, tstate, settledAt, cancelReq,
                   datos, errores, canceladas_por_auth, canceladas, returnedAt,
                   criticas_completadas, tiempo_dashboard_parcial, orden_llegada,
                   deadline, wres>>
    /\ UNCHANGED <<vars, sideVars>>

\* One pass of the body of `for tarea in done`, without suspending (the task
\* is done); after the last task of `done`, or after a break, the coordinator
\* leaves the while loop and returns, or suspends in asyncio.wait again.
CascadeVisit ==
    /\ cpc = "visiting"
    /\ doneQueue /= <<>>
    /\ LET r0 == [datos |-> datos, errores |-> errores,
                  canceladas_por_auth |-> canceladas_por_auth,
                  cancelReq |-> cancelReq, canceladas |-> canceladas,
                  stop |-> FALSE, raised |-> FALSE]
           r == CascadeOne(r0, Head(doneQueue), pendientes)
           rest == IF r.stop \/ r.raised THEN <<>> ELSE Tail(doneQueue)
           over == r.canceladas_por_auth \/ pendientes = {}
       IN /\ datos' = r.datos
          /\ errores' = r.errores
          /\ canceladas_por_auth' = r.canceladas_por_auth
          /\ cancelReq' = r.cancelReq
          /\ canceladas' = r.canceladas
          /\ doneQueue' = rest
          /\ cpc' = IF r.raised THEN "raised"
                    ELSE IF rest /= <<>> THEN "visiting"
                    ELSE IF over THEN "returned" ELSE "waiting"
          /\ returnedAt' = IF r.raised \/ (rest = <<>> /\ over) THEN clock ELSE returnedAt
    /\ UNCHANGED <<body, clock, group, answer, tstate, settledAt, settleOrder, pendientes,
                   criticas_completadas, tiempo_dashboard_parcial, orden_llegada,
                   deadline, wres>>
    /\ UNCHANGED <<vars, sideVars>>

CascadeInit == ThrottleIdle /\ SideIdle /\ StartGroup(CascadeTasks)

CascadeNext ==
    \/ \E t \in Tasks : SettleSome(t)
    \/ \E t \in Tasks : CancelDeliver(t)
    \/ CoordTick
    \/ CascadeWake
    \/ CascadeVisit

CascadeSpec == CascadeInit /\ [][CascadeNext]_allVars

\* ---------------------------------------------------------------- cargar_con_prioridad

\* Mutant of PriorityHandler: a failure of the awaited task is not caught.
PriorityHandlerUncaught(exc) ==
    CASE exc = "ok" -> "value"
      [] OTHER      -> "propagate"

\* The only except clause of the loop is `except Exception`.
PriorityHandler(exc) ==
    CASE exc = "ok"             -> "value"
      [] exc = "CancelledError" -> "propagate"
      [] OTHER                  -> "Exception"

\* Mutant of MarksCritical: a critical task counts as completed however it ended.
MarksCriticalAlways(t, h) == t \in tareas_criticas

\* criticas_completadas.add(tarea) stands in the try block, after the await.
MarksCritical(t, h) == t \in tareas_criticas /\ h = "value"

\* Mutant of SetsReadyAt: the time is taken at every visit once the critical
\* tasks are complete.
SetsReadyAtEveryVisit(marked, crit, tdp) == crit = tareas_criticas

\* The time is taken when a critical task has just been marked, they are all
\* complete and tiempo_dashboard_parcial is None.
SetsReadyAt(marked, crit, tdp) == marked /\ crit = tareas_criticas /\ tdp = -1

\* orden_llegada.append(nombre) stands before the try block.
Arrived(orden, t, h) == Append(orden, t)

\* The body of `for tarea in done` for task t.
PriorityOne(r, t) ==
    LET h == PriorityHandler(tstate[t])
        r1 == [r EXCEPT !.orden_llegada = Arrived(@, t, h)]
        marked == MarksCritical(t, h)
        crit == IF marked THEN r.criticas_completadas \cup {t}
                          ELSE r.criticas_completadas
        r2 == [r1 EXCEPT
                 !.datos = IF h = "value" THEN @ \cup {t} ELSE @,
                 !.errores = IF h = "Exception"
                             THEN @ \cup {[endpoint |-> t, error |-> tstate[t]]}
                             ELSE @,
                 !.criticas_completadas = crit,
                 !.tiempo_dashboard_parcial =
                     IF h /= "propagate" /\ SetsReadyAt(marked, crit, @) THEN clock ELSE @]
    IN IF h = "propagate" THEN [r2 EXCEPT !.raised = TRUE] ELSE r2

\* asyncio.wait returns in cargar_con_prioridad.
PriorityWake ==
    /\ cpc = "waiting"
    /\ WakeReady(pendientes)
    /\ LET done == {t \in pendientes : Done(t)}
       IN /\ pendientes' = pendientes \ done
          /\ \E order \in Orders(done) : doneQueue' = order
    /\ cpc' = "visiting"
    /\ settleOrder' = <<>>
    /\ UNCHANGED <<body, clock, group, answer, tstate, settledAt, cancelReq,
                   datos, errores, canceladas_por_auth, canceladas, returnedAt,
                   criticas_completadas, tiempo_dashboard_parcial, orden_llegada,
                   deadline, wres>>
    /\ UNCHANGED <<vars, sideVars>>

\* One pass of the body of `for tarea in done`; after the last task of `done`
\* the coordinator returns if nothing is pending, or suspends again.
PriorityVisit ==
    /\ cpc = "visiting"
    /\ doneQueue /= <<>>
    /\ LET r0 == [datos |-> datos, errores |-> errores,
                  criticas_completadas |-> criticas_completadas,
                  tiempo_dashboard_parcial |-> tiempo_dashboard_parcial,
                  orden_llegada |-> orden_llegada, raised |-> FALSE]
           r == PriorityOne(r0, Head(doneQueue))
           rest == IF r.raised THEN <<>> ELSE Tail(doneQueue)
       IN /\ datos' = r.datos
          /\ errores' = r.errores
          /\ criticas_completadas' = r.criticas_completadas
          /\ tiempo_dashboard_parcial' = r.tiempo_dashboard_parcial
          /\ orden_llegada' = r.orden_llegada
          /\ doneQueue' = rest
          /\ cpc' = IF r.raised THEN "raised"
                    ELSE IF rest /= <<>> THEN "visiting"
                    ELSE IF pendientes = {} THEN "returned" ELSE "waiting"
          /\ returnedAt' = IF r.raised \/ (rest = <<>> /\ pendientes = {})
                           THEN clock ELSE returnedAt
    /\ UNCHANGED <<body, clock, group, answer, tstate, settledAt, settleOrder, cancelReq,
                   pendientes, canceladas_por_auth, canceladas, deadline, wres>>
    /\ UNCHANGED <<vars, sideVars>>

PriorityInit == ThrottleIdle /\ SideIdle /\ StartGroup(PriorityTasks)

PriorityNext ==
    \/ \E t \in Tasks : SettleSome(t)
    \/ CoordTick
    \/ PriorityWake
    \/ PriorityVisit

PrioritySpec == PriorityInit /\ [][PriorityNext]_allVars

\* ---------------------------------------------------------------- ejecutar_con_timeout

MaxDeadline == 3

\* The operations run concurrently, each inside its own ejecutar_con_timeout.
TimeoutOps == {"productos", "categorias", "perfil"}

\* What ejecutar_con_timeout returns or raises.  `inner` is how the wrapped
\* coroutine ended; `cut` tells whether wait_for cancelled it at the deadline.
\* wait_for turns the cancellation it caused into asyncio.TimeoutError only
\* when the coroutine ends with CancelledError, and the wrapper turns
\* asyncio.TimeoutError into the module's TimeoutError.
WrapperOutcome(inner, cut) ==
    IF cut /\ inner = "CancelledError" THEN "TimeoutError"
    ELSE IF inner = "asyncio.TimeoutError" THEN "TimeoutError"
    ELSE inner

TimeoutInit ==
    /\ ThrottleIdle
    /\ SideIdle
    /\ body \in Bodies
    /\ clock = 0
    /\ group = TimeoutOps
    /\ answer = [t \in Tasks |-> "none"]
    /\ tstate = [t \in Tasks |-> IF t \in TimeoutOps THEN "running" ELSE "none"]
    /\ settledAt = [t \in Tasks |-> -1]
    /\ settleOrder = <<>>
    /\ cancelReq = {}
    /\ cpc = "waiting"
    /\ pendientes = TimeoutOps
    /\ doneQueue = <<>>
    /\ datos = {}
    /\ errores = {}
    /\ canceladas_por_auth = FALSE
    /\ canceladas = -1
    /\ returnedAt = -1
    /\ criticas_completadas = {}
    /\ tiempo_dashboard_parcial = -1
    /\ orden_llegada = <<>>
    /\ deadline \in [Tasks -> 0..MaxDeadline]
    /\ \A t \in Tasks : deadline[t] = 0 <=> t \notin TimeoutOps
    /\ wres = [t \in Tasks |-> IF t \in TimeoutOps THEN "running" ELSE "none"]

\* The wrapped coroutine of operation t ends by itself, with answer a, and
\* wait_for hands its result or exception to the wrapper.
WorkEnds(t, a) ==
    /\ t \in group
    /\ tstate[t] = "running"
    /\ clock >= 1
    /\ a \in Answers(body)
    /\ answer' = [answer EXCEPT ![t] = a]
    /\ tstate' = [tstate EXCEPT ![t] = TaskOutcome(body, a)]
    /\ settledAt' = [settledAt EXCEPT ![t] = clock]
    /\ wres' = [wres EXCEPT ![t] = WrapperOutcome(TaskOutcome(body, a), FALSE)]
    /\ pendientes' = pendientes \ {t}
    /\ UNCHANGED <<body, clock, group, settleOrder, cancelReq, cpc, doneQueue, datos, errores,
                   canceladas_por_auth, canceladas, returnedAt,
                   criticas_completadas, tiempo_dashboard_parcial, orden_llegada,
                   deadline>>
    /\ UNCHANGED <<vars, sideVars>>

WorkEndsSome(t) == \E a \in {"ok", "status401", "status500", "timeout"} : WorkEnds(t, a)

\* The deadline of operation t passes while its coroutine is running:
\* wait_for cancels the coroutine and waits for it to end.
DeadlineFires(t) ==
    /\ t \in group
    /\ tstate[t] = "running"
    /\ clock = deadline[t]
    /\ cancelReq' = cancelReq \cup {t}
    /\ tstate' = [tstate EXCEPT ![t] = CancelOutcome(body)]
    /\ wres' = [wres EXCEPT ![t] = WrapperOutcome(CancelOutcome(body), TRUE)]
    /\ pendientes' = pendientes \ {t}
    /\ UNCHANGED <<body, clock, group, answer, settledAt, settleOrder, cpc, doneQueue, datos,
                   errores, canceladas_por_auth, canceladas, returnedAt,
                   criticas_completadas, tiempo_dashboard_parcial, orden_llegada,
                   deadline>>
    /\ UNCHANGED <<vars, sideVars>>

\* One second passes; no running operation is at its deadline.
TimeoutTick ==
    /\ cpc = "waiting"
    /\ pendientes /= {}
    /\ \A t \in pendientes : clock < deadline[t]
    /\ clock' = clock + 1
    /\ UNCHANGED <<body, group, answer, tstate, settledAt, settleOrder, cancelReq, cpc,
                   pendientes, doneQueue, datos, errores, canceladas_por_auth,
                   canceladas, returnedAt, criticas_completadas,
                   tiempo_dashboard_parcial, orden_llegada, deadline, wres>>
    /\ UNCHANGED <<vars, sideVars>>

\* asyncio.gather(..., return_exceptions=True) returns once every wrapper ended.
TimeoutGather ==
    /\ cpc = "waiting"
    /\ pendientes = {}
    /\ cpc' = "returned"
    /\ returnedAt' = clock
    /\ UNCHANGED <<body, clock, group, answer, tstate, settledAt, settleOrder, cancelReq,
                   pendientes, doneQueue, datos, errores, canceladas_por_auth,
                   canceladas, criticas_completadas, tiempo_dashboard_parcial,
                   orden_llegada, deadline, wres>>
    /\ UNCHANGED <<vars, sideVars>>

TimeoutNext ==
    \/ \E t \in Tasks : WorkEndsSome(t)
    \/ \E t \in Tasks : DeadlineFires(t)
    \/ TimeoutTick
    \/ TimeoutGather

TimeoutSpec == TimeoutInit /\ [][TimeoutNext]_allVars

\* C11: an operation ends with the module's TimeoutError exactly when its
\* deadline passed while its own work was running; otherwise it ends with its
\* own result or error; and an outcome, once reached, never changes.
C11_TimedOutIffOwnDeadline ==
    /\ [](\A t \in group : wres[t] /= "running" =>
            /\ wres[t] = "TimeoutError" <=> t \in cancelReq
            /\ t \notin cancelReq => (wres[t] = "ok" <=> answer[t] = "ok"))
    /\ [][\A t \in group : wres[t] /= "running" => wres'[t] = wres[t]]_allVars

\* ---------------------------------------------------------------- properties of the cascade

InSucceeded(t) == t \in datos
InFailed(t) == \E e \in errores : e.endpoint = t /\ ~e.cancelada
InCancelled(t) == \E e \in errores : e.endpoint = t /\ e.cancelada
FatalObserved == \E e \in errores : e.error = "NoAutorizado"
StillRunning(t) == settledAt[t] = -1

\* C12: once the coordinator has seen a task end with NoAutorizado, every task
\* of the group whose work has not ended is cancelled and listed with
\* cancelada = True, the coordinator has returned, and from the moment the
\* cancellation is requested no key is added to datos.
C12_CascadeCancelsPending ==
    /\ [](FatalObserved =>
            \A t \in group : StillRunning(t) =>
                /\ t \in cancelReq
                /\ InCancelled(t)
                /\ cpc = "returned")
    /\ [][canceladas_por_auth => datos' = datos]_allVars

C12_Witness ==
    /\ cpc = "returned"
    /\ FatalObserved
    /\ \E t \in group : StillRunning(t) /\ t \in cancelReq /\ InCancelled(t)
    /\ datos /= {}

C14_CancelledOnlyAfterFatal ==
    /\ \A t \in group : InCancelled(t) =>
          /\ StillRunning(t)
          /\ \E u \in group \ {t} :
                /\ tstate[u] = "NoAutorizado"
                /\ [endpoint |-> u, error |-> "NoAutorizado", cancelada |-> FALSE] \in errores
    /\ cancelReq /= {} => FatalObserved
    /\ (cpc = "returned" /\ ~FatalObserved) =>
          \A t \in group : ~StillRunning(t) /\ (InSucceeded(t) \/ InFailed(t))

C14_Witness ==
    /\ cpc = "returned"
    /\ ~FatalObserved
    /\ \E t \in group : InFailed(t) /\ settledAt[t] < returnedAt
    /\ \E t \in group : InSucceeded(t) /\ settledAt[t] = returnedAt
    /\ cancelReq = {}

\* C15: the coordinator never raises; a task it cancelled appears in the
\* report only as an entry with cancelada = True, however the task ends
\* afterwards; cancel() is called only on tasks that were not done, and
\* cancel_remaining returns how many they are.
C15_CancellationAbsorbed ==
    /\ cpc /= "raised"
    /\ \A t \in cancelReq : InCancelled(t) /\ ~InSucceeded(t) /\ ~InFailed(t)
    /\ \A t \in cancelReq : StillRunning(t)
    /\ IF cancelReq = {} THEN canceladas = -1
                         ELSE canceladas = Cardinality(cancelReq)

C15_Witness ==
    /\ cpc = "returned"
    /\ canceladas = 2
    /\ \A t \in cancelReq : tstate[t] = "CancelledError"

\* The group {A: ok after 2 s, B: 401 after 5 s, C: ok after 3 s}.
Scenario16(A, B, C) ==
    /\ cpc = "returned"
    /\ settledAt[A] = 2 /\ answer[A] = "ok"
    /\ settledAt[B] = 5 /\ answer[B] = "status401"
    /\ settledAt[C] = 3 /\ answer[C] = "ok"

\* C16 as claimed: A succeeded, B failed, C cancelled, and the coordinator
\* returns when B ends.
C16_AsClaimed ==
    \A A, B, C \in group : Scenario16(A, B, C) =>
        /\ datos = {A}
        /\ InFailed(B)
        /\ InCancelled(C)
        /\ returnedAt = settledAt[B]

\* C16: in that group C has ended before B does, so nothing is pending when
\* the 401 is seen: A and C succeeded, B failed, nothing is cancelled, and the
\* coordinator returns when B ends.
C16_ScenarioReport ==
    \A A, B, C \in group : Scenario16(A, B, C) =>
        /\ datos = {A, C}
        /\ InFailed(B) /\ ~InCancelled(B)
        /\ \A t \in group : ~InCancelled(t)
        /\ cancelReq = {}
        /\ returnedAt = settledAt[B]

C16_Witness ==
    \E A, B, C \in group : Scenario16(A, B, C) /\ datos = {A, C} /\ returnedAt = 5

\* ---------------------------------------------------------------- properties of the priority load

Visited(t) == \E n \in 1..Len(orden_llegada) : orden_llegada[n] = t
ReadyAtSet == tiempo_dashboard_parcial /= -1
LastCriticalSettledAt ==
    CHOOSE m \in {settledAt[t] : t \in tareas_criticas} :
        \A t \in tareas_criticas : settledAt[t] <= m

C20_NeverAbandons ==
    /\ cancelReq = {}
    /\ cpc /= "raised"
    /\ \A t \in group : Done(t) => ~StillRunning(t)
    /\ cpc = "returned" =>
          \A t \in group :
              /\ Done(t)
              /\ Visited(t)
              /\ t \in datos \/ \E e \in errores : e.endpoint = t

C20_Witness ==
    /\ cpc = "returned"
    /\ tstate["productos"] \notin {"ok", "running"}
    /\ settledAt["productos"] = 1
    /\ \A t \in group \ {"productos"} : t \in datos /\ settledAt[t] > 1

\* C21: `for tarea in done` takes the tasks that asyncio.wait returns in the
\* order in which they ended, and when the coordinator has returned,
\* orden_llegada holds every task of the group exactly once, whether it
\* succeeded or failed, with a task that ended in an earlier second first.
C21_ArrivalOrder ==
    /\ [](cpc = "returned" =>
            /\ Len(orden_llegada) = Cardinality(group)
            /\ \A t \in group :
                  Cardinality({n \in 1..Len(orden_llegada) : orden_llegada[n] = t}) = 1
            /\ \A m, n \in 1..Len(orden_llegada) :
                  settledAt[orden_llegada[m]] < settledAt[orden_llegada[n]] => m < n)
    /\ [][(cpc = "waiting" /\ cpc' = "visiting") => doneQueue' = settleOrder]_allVars

\* C27: whenever the deadline of a wrapped operation passes while its work is
\* running, ejecutar_con_timeout ends with the module's TimeoutError, also
\* when the operation is one of the module's request functions.
C27_OverrunIsTimeoutError ==
    \A t \in group :
        (t \in cancelReq /\ wres[t] /= "running") => wres[t] = "TimeoutError"

\* C28: a request function ends with the error that _verificar_respuesta
\* raised for the response (NoAutorizado for 401, ServerError for 5xx); and
\* when perfil answers 401 while a sibling is still running, the coordinator
\* returns having cancelled the siblings.
C28_ErrorKindReachesCaller ==
    body = "request" =>
        /\ \A t \in group :
              answer[t] \in {"status401", "status500"} =>
                  tstate[t] = verificar_respuesta(answer[t])
        /\ ( /\ cpc = "returned"
             /\ answer["perfil"] = "status401"
             /\ \E t \in group : settledAt[t] = -1 \/ settledAt[t] > settledAt["perfil"] )
              => canceladas_por_auth

\* ================================================================ smart_session.py

MaxConnections == 3
MaxSamples == 2

\* Durations that monitored_request can measure, in microseconds.
AcqSamples == {5, 100004, 100010}

RECURSIVE SumSeq(_, _)
SumSeq(q, n) == IF n = 0 THEN 0 ELSE q[n] + SumSeq(q, n - 1)

\* get_pool_stats: the snapshot it builds from the connector and the stats.
get_pool_stats == [active |-> active, idle |-> idle, times |-> acquisition_times]

\* stats['metrics']['avg_acquisition_ms'] in hundredths of a millisecond:
\* round(get_average_acquisition_time() * 1000, 2).  An average that lies
\* exactly between two hundredths goes to either, depending on the binary
\* value of the float.
RoundedAvg(times) ==
    IF times = <<>> THEN {0}
    ELSE LET total == SumSeq(times, Len(times))
             d == 10 * Len(times)
             f == total \div d
             r == total % d
         IN IF 2 * r < d THEN {f}
            ELSE IF 2 * r > d THEN {f + 1}
            ELSE {f, f + 1}

\* The three `if` statements of _run_health_check on one snapshot; avg is
\* avg_acquisition_ms in hundredths of a millisecond.
Advisories(snap, avg) ==
    (IF 10 * snap.active >= 9 * max_connections THEN {"exhaustion"} ELSE {})
    \cup (IF avg > 10000 THEN {"contention"} ELSE {})
    \cup (IF 2 * snap.idle > max_connections /\ snap.active = 0 THEN {"idle"} ELSE {})

\* Mutant of MonitorEnds: an exception of the check leaves the task.
MonitorEndsUncaught(cause) == IF cause = "error" THEN "exception" ELSE "returned"

\* How the task of _run_health_check ends: both handlers swallow what they catch.
MonitorEnds(cause) == "returned"

\* `await self._health_check_task` inside try / except CancelledError: pass.
ExitOutcome(taskEnd) ==
    IF taskEnd \in {"none", "returned", "CancelledError"} THEN "ok" ELSE "raised"

MonitorInit ==
    /\ ThrottleIdle
    /\ CoordIdle
    /\ MetricsIdle
    /\ RetryIdle
    /\ BucketIdle
    /\ max_connections \in 1..MaxConnections
    /\ monitoring \in BOOLEAN
    /\ sess = "none"
    /\ closedFlag = FALSE
    /\ mon = "none"
    /\ monEnd = "none"
    /\ active = 0
    /\ idle = 0
    /\ acquisition_times = <<>>
    /\ counters = [created |-> 0, reused |-> 0, closed |-> 0]
    /\ ticked = FALSE
    /\ seen = NoSnapshot
    /\ advice = {}
    /\ userSnap = NoSnapshot
    /\ exitResult = "none"

\* __aenter__
SessionEnter ==
    /\ sess = "none"
    /\ sess' = "open"
    /\ mon' = IF monitoring THEN "sleeping" ELSE "none"
    /\ UNCHANGED <<max_connections, monitoring, closedFlag, monEnd, active, idle,
                   acquisition_times, counters, ticked, seen, advice, userSnap,
                   exitResult>>
    /\ UNCHANGED <<vars, coordVars, notMon>>

\* A request takes a connection: an idle one if there is one.
TakeConnection ==
    /\ sess = "open"
    /\ active < max_connections
    /\ active' = active + 1
    /\ idle' = IF idle > 0 THEN idle - 1 ELSE idle

\* session.get(...) and the like.
PlainRequest ==
    /\ TakeConnection
    /\ UNCHANGED <<max_connections, monitoring, sess, closedFlag, mon, monEnd,
                   acquisition_times, counters, ticked, seen, advice, userSnap,
                   exitResult>>
    /\ UNCHANGED <<vars, coordVars, notMon>>

\* monitored_request: the time to the response headers is recorded.
MonitoredRequest(d) ==
    /\ TakeConnection
    /\ Len(acquisition_times) < MaxSamples
    /\ acquisition_times' = Append(acquisition_times, d)
    /\ counters' = IF d < 10000 THEN [counters EXCEPT !.reused = @ + 1]
                                ELSE [counters EXCEPT !.created = @ + 1]
    /\ UNCHANGED <<max_connections, monitoring, sess, closedFlag, mon, monEnd,
                   ticked, seen, advice, userSnap, exitResult>>
    /\ UNCHANGED <<vars, coordVars, notMon>>

\* A request ends; its connection is kept alive or closed.
RequestEnd ==
    /\ active > 0
    /\ active' = active - 1
    /\ idle' \in {idle, idle + 1}
    /\ UNCHANGED <<max_connections, monitoring, sess, closedFlag, mon, monEnd,
                   acquisition_times, counters, ticked, seen, advice, userSnap,
                   exitResult>>
    /\ UNCHANGED <<vars, coordVars, notMon>>

\* keepalive_timeout of an idle connection passes.
IdleExpire ==
    /\ idle > 0
    /\ idle' = idle - 1
    /\ UNCHANGED <<max_connections, monitoring, sess, closedFlag, mon, monEnd,
                   active, acquisition_times, counters, ticked, seen, advice,
                   userSnap, exitResult>>
    /\ UNCHANGED <<vars, coordVars, notMon>>

\* get_pool_stats called by the owner of the session.
Snapshot ==
    /\ sess = "open"
    /\ userSnap' = get_pool_stats
    /\ UNCHANGED <<max_connections, monitoring, sess, closedFlag, mon, monEnd,
                   active, idle, acquisition_times, counters, ticked, seen,
                   advice, exitResult>>
    /\ UNCHANGED <<vars, coordVars, notMon>>

\* One pass of the loop of _run_health_check after its sleep.
HealthTick ==
    /\ mon = "sleeping"
    /\ ~closedFlag
    /\ seen' = get_pool_stats
    /\ \E avg \in RoundedAvg(acquisition_times) :
           advice' = Advisories(get_pool_stats, avg)
    /\ ticked' = TRUE
    /\ UNCHANGED <<max_connections, monitoring, sess, closedFlag, mon, monEnd,
                   active, idle, acquisition_times, counters, userSnap, exitResult>>
    /\ UNCHANGED <<vars, coordVars, notMon>>

\* Something raises inside the try block of _run_health_check.
HealthFail ==
    /\ mon = "sleeping"
    /\ ~closedFlag
    /\ mon' = "ended"
    /\ monEnd' = MonitorEnds("error")
    /\ UNCHANGED <<max_connections, monitoring, sess, closedFlag, active, idle,
                   acquisition_times, counters, ticked, seen, advice, userSnap,
                   exitResult>>
    /\ UNCHANGED <<vars, coordVars, notMon>>

\* __aexit__ up to `await self._health_check_task`.
ExitBegin ==
    /\ sess = "open"
    /\ sess' = "exiting"
    /\ closedFlag' = TRUE
    /\ UNCHANGED <<max_connections, monitoring, mon, monEnd, active, idle,
                   acquisition_times, counters, ticked, seen, advice, userSnap,
                   exitResult>>
    /\ UNCHANGED <<vars, coordVars, notMon>>

\* The cancelled task receives CancelledError in its sleep.
MonitorCancelled ==
    /\ sess = "exiting"
    /\ mon = "sleeping"
    /\ mon' = "ended"
    /\ monEnd' = MonitorEnds("cancel")
    /\ UNCHANGED <<max_connections, monitoring, sess, closedFlag, active, idle,
                   acquisition_times, counters, ticked, seen, advice, userSnap,
                   exitResult>>
    /\ UNCHANGED <<vars, coordVars, notMon>>

\* The rest of __aexit__, once the task is done: super().__aexit__().
ExitEnd ==
    /\ sess = "exiting"
    /\ mon /= "sleeping"
    /\ sess' = "closed"
    /\ exitResult' = ExitOutcome(monEnd)
    /\ idle' = IF ExitOutcome(monEnd) = "ok" THEN 0 ELSE idle
    /\ UNCHANGED <<max_connections, monitoring, closedFlag, mon, monEnd, active,
                   acquisition_times, counters, ticked, seen, advice, userSnap>>
    /\ UNCHANGED <<vars, coordVars, notMon>>

MonitorNext ==
    \/ SessionEnter
    \/ PlainRequest
    \/ \E d \in AcqSamples : MonitoredRequest(d)
    \/ RequestEnd
    \/ IdleExpire
    \/ Snapshot
    \/ HealthTick
    \/ HealthFail
    \/ ExitBegin
    \/ MonitorCancelled
    \/ ExitEnd

MonitorSpec == MonitorInit /\ [][MonitorNext]_allVars

\* C22 as claimed: the contention advisory is printed exactly when the
\* average of the recorded times exceeds 100 ms.
C22_AsClaimed ==
    ticked =>
        /\ "exhaustion" \in advice <=> 10 * seen.active >= 9 * max_connections
        /\ "contention" \in advice <=>
              SumSeq(seen.times, Len(seen.times)) > 100000 * Len(seen.times)
        /\ "idle" \in advice <=> (2 * seen.idle > max_connections /\ seen.active = 0)

\* C22: on the snapshot of a check, the exhaustion advisory is printed iff
\* active >= 0.9 * max, the idle advisory iff idle > 0.5 * max with
\* active = 0, and the contention advisory iff the average time rounded to a
\* hundredth of a millisecond exceeds 100 ms, that is from 100.005 ms on;
\* each independently of the others.
C22_AdvisoriesOfSnapshot ==
    ticked =>
        LET total == SumSeq(seen.times, Len(seen.times))
            n == Len(seen.times)
        IN /\ "exhaustion" \in advice <=> 10 * seen.active >= 9 * max_connections
           /\ "idle" \in advice <=> (2 * seen.idle > max_connections /\ seen.active = 0)
           /\ (n > 0 /\ 1000 * total > 100005000 * n) => "contention" \in advice
           /\ "contention" \in advice => (n > 0 /\ 1000 * total >= 100005000 * n)

C22_Witness ==
    /\ ticked
    /\ advice = {"exhaustion", "contention"}
    /\ seen.times = <<100004, 100010>>

\* C23: a health check and a call of get_pool_stats leave the pool (active,
\* idle), the lifetime counters, the recorded times and the session as they
\* were; a request can take a connection whenever the session is open and a
\* connection is free, whatever the monitor is doing; the monitor is alive
\* only between __aenter__ and the end of __aexit__; and neither its failure
\* nor its cancellation changes the requests or makes __aexit__ raise.
C23_MonitorIsPassive ==
    /\ [](mon = "sleeping" => sess \in {"open", "exiting"})
    /\ [](sess = "closed" => mon /= "sleeping")
    /\ [](ticked => monitoring /\ sess /= "none")
    /\ [](exitResult /= "raised")
    /\ []((sess = "open" /\ active < max_connections) => ENABLED PlainRequest)
    /\ [][(HealthTick \/ Snapshot \/ HealthFail \/ MonitorCancelled) =>
              UNCHANGED <<active, idle, acquisition_times, counters, sess,
                          closedFlag, exitResult>>]_allVars

C23_Witness ==
    /\ sess = "open"
    /\ mon = "ended"
    /\ ticked
    /\ active > 0
    /\ active < max_connections
    /\ userSnap /= NoSnapshot

\* ================================================================ ThrottledClient.get_metrics

\* The dict that get_metrics builds.  average_wait_time is the quotient of
\* RateLimiter._total_wait_time and RateLimiter._requests_made; the second is
\* the field that the model carries.
MetricsDict ==
    [total_requests |-> metrics.total_requests,
     successful_requests |-> metrics.successful_requests,
     failed_requests |-> metrics.failed_requests,
     in_flight |-> in_flight,
     requests_made |-> requests_made,
     max_concurrent |-> max_concurrent,
     max_per_second |-> rateNum]

\* Mutant of MetricsAfterRead: the call counts itself as a request.
MetricsAfterReadCounted(m) == [m EXCEPT !.total_requests = @ + 1]

\* What get_metrics leaves in self.metrics: it assigns nothing.
MetricsAfterRead(m) == m

\* `return {**self.metrics, ...}` is a new dict, not self.metrics.
ReturnsOwnDict == FALSE

\* What the caller reads in the dict it kept.
HeldNow ==
    IF held.alias
    THEN [held.at EXCEPT !.total_requests = metrics.total_requests,
                         !.successful_requests = metrics.successful_requests,
                         !.failed_requests = metrics.failed_requests]
    ELSE held.at

\* a = client.get_metrics(); b = client.get_metrics() with no await between.
GetMetrics ==
    /\ held' = [alias |-> ReturnsOwnDict, at |-> MetricsDict]
    /\ metrics' = MetricsAfterRead(MetricsAfterRead(metrics))
    /\ again' = [MetricsDict EXCEPT
                    !.total_requests = MetricsAfterRead(metrics).total_requests]
    /\ UNCHANGED <<max_concurrent, rateNum, max_tokens, tokens, sinceRefill,
                   sleepLeft, semValue, waiters, in_flight, holders,
                   requests_made, pc, response, result, cancelled, trace,
                   recentGrants, everWaited, report>>
    /\ UNCHANGED <<coordVars, notMet>>

MetricsInit ==
    /\ Init
    /\ max_concurrent = 1
    /\ rateNum = RateDen

MetricsNext ==
    \/ Next
    \/ GetMetrics

MetricsSpec == MetricsInit /\ [][MetricsNext]_allVars

MaxRetries == 2

\* base_delay and max_delay of the decorated function, in seconds.
base_delay == 1
max_delay == 2

\* What an invocation of the wrapped function can do.
FuncResults == {"ok", "ServerError", "TimeoutError", "ClientError", "ValueError"}

\* class ServerError(RetryableError), class TimeoutError(RetryableError)
RetryableError == {"ServerError", "TimeoutError"}

RECURSIVE Pow2(_)
Pow2(n) == IF n = 0 THEN 1 ELSE 2 * Pow2(n - 1)

\* calculate_exponential_delay
calculate_exponential_delay(a) == Min(base_delay * Pow2(a), max_delay)

\* apply_jitter with jitter_range = 0.25: 1 + random.uniform(-0.25, 0.25), in
\* quarters; the two ends and the middle of the interval.
JitterFactors == {3, 4, 5}

\* Mutant of IsRetryOn: every exception is retried.
IsRetryOnAny(e) == TRUE

\* except config.retry_on as e
IsRetryOn(e) == e \in retry_on

\* Mutant of LastAttempt: the test is off by one.
LastAttemptLate(a) == a > max_retries

\* if attempt >= config.max_retries: break
LastAttempt(a) == a >= max_retries

\* raise RetryExhaustedError(..., last_exception=last_exception, attempts=config.max_retries + 1)
RetryExhausted(last) ==
    [kind |-> "RetryExhaustedError", call |-> 0, attempts |-> max_retries + 1, last |-> last]

RetryInit ==
    /\ ThrottleIdle
    /\ CoordIdle
    /\ MonitorIdle
    /\ MetricsIdle
    /\ BucketIdle
    /\ max_retries \in 0..MaxRetries
    /\ retry_on \in {RetryableError, {"ServerError"}}
    /\ has_callback \in BOOLEAN
    /\ attempt = 0
    /\ rpc = "idle"
    /\ events = <<>>
    /\ results = <<>>
    /\ delays = <<>>
    /\ last_exception = NoException
    /\ outcome = NoOutcome

\* The decorated function is called: wrapper starts its loop.
WrapperCall ==
    /\ rpc = "idle"
    /\ rpc' = "calling"
    /\ attempt' = 0
    /\ UNCHANGED <<max_retries, retry_on, has_callback, events, results, delays,
                   last_exception, outcome>>
    /\ UNCHANGED <<vars, coordVars, notRet>>

\* One pass of the loop body: func is invoked and its result is handled, up
\* to the return, the raise, the break or the call of time.sleep.
Invoke(r) ==
    /\ rpc = "calling"
    /\ results' = Append(results, r)
    /\ LET k == Len(results) + 1
           e == [kind |-> r, call |-> k]
       IN IF r = "ok"
          THEN /\ rpc' = "returned"
               /\ outcome' = [NoOutcome EXCEPT !.kind = "ok", !.call = k]
               /\ events' = Append(events, "call")
               /\ UNCHANGED <<attempt, delays, last_exception>>
          ELSE IF IsRetryOn(r)
          THEN /\ last_exception' = e
               /\ IF LastAttempt(attempt)
                  THEN /\ rpc' = "raised"
                       /\ outcome' = RetryExhausted(e)
                       /\ events' = Append(events, "call")
                       /\ UNCHANGED <<attempt, delays>>
                  ELSE /\ \E f \in JitterFactors :
                              delays' = Append(delays, calculate_exponential_delay(attempt) * f)
                       /\ events' = events \o <<"call">>
                                      \o (IF has_callback THEN <<"on_retry">> ELSE <<>>)
                                      \o <<"sleep">>
                       /\ rpc' = "sleeping"
                       /\ UNCHANGED <<attempt, outcome>>
          ELSE /\ rpc' = "raised"
               /\ outcome' = [NoOutcome EXCEPT !.kind = r, !.call = k]
               /\ events' = Append(events, "call")
               /\ UNCHANGED <<attempt, delays, last_exception>>
    /\ UNCHANGED <<max_retries, retry_on, has_callback>>
    /\ UNCHANGED <<vars, coordVars, notRet>>

\* time.sleep returns: the for statement takes the next value of
\* range(max_retries + 1), or finds none and the wrapper raises.
SleepEnds ==
    /\ rpc = "sleeping"
    /\ IF attempt + 1 <= max_retries
       THEN /\ attempt' = attempt + 1
            /\ rpc' = "calling"
            /\ UNCHANGED outcome
       ELSE /\ rpc' = "raised"
            /\ outcome' = RetryExhausted(last_exception)
            /\ UNCHANGED attempt
    /\ UNCHANGED <<max_retries, retry_on, has_callback, events, results, delays,
                   last_exception>>
    /\ UNCHANGED <<vars, coordVars, notRet>>

RetryNext ==
    \/ WrapperCall
    \/ \E r \in FuncResults : Invoke(r)
    \/ SleepEnds

RetrySpec == RetryInit /\ [][RetryNext]_allVars

RetryOver == rpc \in {"returned", "raised"}

Count(seq, x) == Cardinality({k \in 1..Len(seq) : seq[k] = x})

\* C25: the function is invoked at most max_retries + 1 times and again only
\* after a failure that retry_on matches; between two invocations there is
\* exactly one sleep, preceded by one call of on_retry when there is one, and
\* after the last invocation there is none; the wrapper raises
\* RetryExhaustedError exactly when max_retries + 1 invocations have failed
\* with such an error, with attempts = max_retries + 1 and the exception of
\* the last invocation.
C25_RetryUntilSuccessOrExhausted ==
    LET n == Len(results) IN
    /\ n <= max_retries + 1
    /\ Count(events, "call") = n
    /\ \A k \in 1..n : k < n => (results[k] /= "ok" /\ results[k] \in retry_on)
    /\ \A k \in 1..Len(events) :
          /\ events[k] = "call" => (k = 1 \/ events[k - 1] = "sleep")
          /\ events[k] = "on_retry" => (has_callback /\ events[k - 1] = "call")
          /\ events[k] = "sleep" =>
                events[k - 1] = (IF has_callback THEN "on_retry" ELSE "call")
    /\ Count(events, "sleep") = Len(delays)
    /\ RetryOver =>
          /\ n >= 1
          /\ events[Len(events)] = "call"
          /\ Count(events, "sleep") = n - 1
          /\ Count(events, "on_retry") = (IF has_callback THEN n - 1 ELSE 0)
          /\ outcome.kind = "ok" <=> results[n] = "ok"
          /\ outcome.kind = "RetryExhaustedError" <=>
                (n = max_retries + 1 /\ results[n] \in retry_on)
          /\ outcome.kind = "RetryExhaustedError" =>
                /\ outcome.attempts = max_retries + 1
                /\ outcome.last = [kind |-> results[n], call |-> n]

C25_Witness ==
    /\ max_retries = 2
    /\ has_callback
    /\ outcome.kind = "RetryExhaustedError"
    /\ results = <<"ServerError", "TimeoutError", "ServerError">>
    /\ Len(delays) = 2

\* C26: an exception of the wrapped function that retry_on does not match
\* leaves the wrapper as it is, the same object, and nothing follows it:
\* no invocation, no sleep, no call of on_retry, no RetryExhaustedError;
\* also when earlier invocations failed with errors that were retried.
C26_OtherErrorsPropagateAtOnce ==
    \A k \in 1..Len(results) :
        (results[k] /= "ok" /\ results[k] \notin retry_on) =>
            /\ k = Len(results)
            /\ rpc = "raised"
            /\ outcome = [NoOutcome EXCEPT !.kind = results[k], !.call = k]
            /\ events[Len(events)] = "call"
            /\ Count(events, "sleep") = k - 1
            /\ Count(events, "on_retry") = (IF has_callback THEN k - 1 ELSE 0)

C26_Witness ==
    /\ results = <<"ServerError", "ServerError", "ClientError">>
    /\ has_callback
    /\ rpc = "raised"
    /\ outcome.kind = "ClientError"

\* ================================================================ TokenBucket.acquire over time

\* Time advances, and the event loop runs a caller whose sleep is over.
RateLiveSpec ==
    /\ Init
    /\ [][Next]_allVars
    /\ WF_vars(Tick)
    /\ \A i \in Ops : WF_vars(RateAcquire(i))

\* C29: whatever max_per_second > 0 the client was built with, a caller that
\* waits for its token gets it as time advances (or is cancelled by its
\* owner).
C29_EveryAcquisitionGranted ==
    \A i \in Ops : (pc[i] = "rate") ~> (pc[i] /= "rate")

\* The same for the clients whose bucket can hold a token: int(max_per_second) >= 1.
C29_GrantedWhenBucketHoldsAToken ==
    \A i \in Ops : (pc[i] = "rate" /\ max_tokens >= 1) ~> (pc[i] /= "rate")

MaxNow == 5

BucketInit ==
    /\ Init
    /\ max_concurrent = MaxConcurrentChoice
    /\ rateNum \in {RateDen, 2 * RateDen}

\* RateAcquire, with the callers that slept and slept again written down.
BucketAcquire(i) ==
    /\ RateAcquireStep(i)
    /\ IF pc'[i] = "rate"
       THEN /\ slept' = slept \cup {i}
            /\ rewaited' = IF i \in slept THEN rewaited \cup {i} ELSE rewaited
       ELSE UNCHANGED <<slept, rewaited>>
    /\ UNCHANGED <<now, coordVars, monVars, metVars, retVars>>

\* Tick, with the time written down.
BucketTick ==
    /\ now < MaxNow
    /\ TickStep
    /\ now' = now + 1
    /\ UNCHANGED <<slept, rewaited, coordVars, monVars, metVars, retVars>>

BucketNext ==
    \/ \E i \in Ops : Submit(i)
    \/ \E i \in Ops : BucketAcquire(i)
    \/ \E i \in Ops : SlotAdmit(i)
    \/ \E i \in Ops : Complete(i)
    \/ \E i \in Ops : Cancel(i)
    \/ BucketTick

BucketSpec == BucketInit /\ [][BucketNext]_allVars

\* C30: however many callers run acquire, a token is taken by one caller
\* only: the acquisitions granted up to a time never exceed the capacity plus
\* what the refill rate has added by then, one run of acquire grants one
\* token at most, and a caller leaves acquire only by taking a whole token
\* that it found in the bucket, so that one that wakes to find the token
\* gone sleeps again.
C30_OneTokenOneCaller ==
    /\ [](requests_made * TokenUnit <= max_tokens * TokenUnit + rateNum * now)
    /\ [](tokens >= 0)
    /\ [][requests_made' <= requests_made + 1]_allVars
    /\ [][\A i \in Ops :
            (pc[i] = "rate" /\ pc'[i] /= "rate" /\ i \notin cancelled') =>
                /\ Min(max_tokens * TokenUnit, tokens + sinceRefill * rateNum) >= TokenUnit
                /\ tokens' = Min(max_tokens * TokenUnit, tokens + sinceRefill * rateNum) - TokenUnit
                /\ requests_made' = requests_made + 1]_allVars

\* Three callers at t = 0 on a bucket of one token refilled once per second:
\* one is granted at once, the others at 1 s and 2 s, the last after waking
\* once to an empty bucket.
C30_Witness ==
    /\ rateNum = RateDen
    /\ requests_made = NOps
    /\ now = 2 * TicksPerSecond
    /\ rewaited /= {}

====
